---- MODULE Spec2Model ----
(***************************************************************************)
(* Query parsing, query building and pagination of the API template:       *)
(* parseQuery, buildQuery, parseFilterKey, buildOp, orJoin, posInt, clamp, *)
(* str (src/src/database/client.ts, lines 164-355) and paginateTable       *)
(* (lines 46-117).                                                         *)
(*                                                                         *)
(* Strings are sequences of one-character strings, so that endsWith,       *)
(* slice, Number() and String() are computed, not assumed.                 *)
(***************************************************************************)
EXTENDS Integers, Sequences, FiniteSets, TLC

VARIABLES
    key,        \* SpecKey: the filter key handed to parseFilterKey
    keyOut,     \* SpecKey: what parseFilterKey / buildOp returned for it
    raw,        \* SpecParse: the raw query map, a sequence of entries
    defaults,   \* SpecParse: the defaults argument of parseQuery
    parsed,     \* SpecParse: the ParsedQuery returned
    opts,       \* SpecBuild: the BuildQueryOptions
    built,      \* SpecBuild: the BuiltQuery returned
    store,      \* Spec: the table's rows, in heap order
    nextId,     \* Spec: the next row id the store hands out
    pc,         \* Spec: where the paginateTable call stands
    call,       \* Spec: the call's arguments and locals
    result      \* Spec: the page envelope returned, or the error thrown

vars == <<key, keyOut, raw, defaults, parsed, opts, built,
          store, nextId, pc, call, result>>

(***************************************************************************)
(* Bounds of the model.                                                    *)
(***************************************************************************)
MaxKeyLen == 5      \* longest filter key SpecKey enumerates
MaxEntries == 2     \* most entries of a raw map / a filters map
MaxRows == 3        \* most rows the store holds

(***************************************************************************)
(* Strings.                                                                *)
(***************************************************************************)
Min(a, b) == IF a < b THEN a ELSE b
Max(a, b) == IF a > b THEN a ELSE b

\* String.prototype.endsWith
EndsWith(s, suf) ==
    /\ Len(suf) <= Len(s)
    /\ SubSeq(s, Len(s) - Len(suf) + 1, Len(s)) = suf

\* key.slice(0, -n) for n >= 1: a negative end counts from the end of the
\* string, and an end before the start gives the empty string
SliceOffEnd(s, n) == SubSeq(s, 1, Max(0, Len(s) - n))

\* Array.prototype.includes over an array of strings
Includes(arr, s) == \E i \in 1..Len(arr) : arr[i] = s

Digits == <<"0", "1", "2", "3", "4", "5", "6", "7", "8", "9">>
IsDigit(c) == \E i \in 1..10 : Digits[i] = c
DigitVal(c) == (CHOOSE i \in 1..10 : Digits[i] = c) - 1
AllDigits(s) == \A i \in 1..Len(s) : IsDigit(s[i])

RECURSIVE DigitsVal(_)
DigitsVal(s) ==
    IF s = <<>> THEN 0
    ELSE 10 * DigitsVal(SubSeq(s, 1, Len(s) - 1)) + DigitVal(s[Len(s)])

RECURSIVE Pow10(_)
Pow10(n) == IF n = 0 THEN 1 ELSE 10 * Pow10(n - 1)

RECURSIVE NatToStr(_)
NatToStr(n) ==
    IF n < 10 THEN <<Digits[n + 1]>>
    ELSE NatToStr(n \div 10) \o <<Digits[(n % 10) + 1]>>

(***************************************************************************)
(* JavaScript values: undefined, null, strings, numbers and arrays.  A     *)
(* number is NaN, an infinity or the finite fraction n / d (d > 0).        *)
(***************************************************************************)
Undef == [k |-> "undefined"]
Null == [k |-> "null"]
Str(s) == [k |-> "string", s |-> s]
NaN == [k |-> "number", cls |-> "nan", n |-> 0, d |-> 1]
Inf == [k |-> "number", cls |-> "inf", n |-> 1, d |-> 1]
Frac(n, d) == [k |-> "number", cls |-> "fin", n |-> n, d |-> d]
Whole(n) == Frac(n, 1)
Arr(a) == [k |-> "array", a |-> a]
Bool(b) == [k |-> "boolean", b |-> b]

IsNullish(v) == v.k \in {"undefined", "null"}

\* The position of the decimal point of s, or 0
DotAt(s) ==
    IF \E i \in 1..Len(s) : s[i] = "."
    THEN CHOOSE i \in 1..Len(s) : s[i] = "." /\ \A j \in 1..(i - 1) : s[j] # "."
    ELSE 0

\* An unsigned decimal literal: digits, digits.digits, digits. or .digits
UnsignedToNumber(s) ==
    LET dot == DotAt(s)
        ip == IF dot = 0 THEN s ELSE SubSeq(s, 1, dot - 1)
        fp == IF dot = 0 THEN <<>> ELSE SubSeq(s, dot + 1, Len(s))
    IN  IF AllDigits(ip) /\ AllDigits(fp) /\ Len(ip) + Len(fp) > 0
        THEN Frac(DigitsVal(ip) * Pow10(Len(fp)) + DigitsVal(fp), Pow10(Len(fp)))
        ELSE NaN

\* Number(s) of a string: the empty string is 0, a signed decimal literal is
\* its value, "Infinity" is infinite, anything else is NaN
StringToNumber(s) ==
    IF s = <<>> THEN Whole(0)
    ELSE IF s = <<"I", "n", "f", "i", "n", "i", "t", "y">> THEN Inf
    ELSE IF s[1] = "-"
         THEN LET u == UnsignedToNumber(Tail(s))
              IN  IF u.cls = "fin" THEN Frac(0 - u.n, u.d) ELSE NaN
    ELSE UnsignedToNumber(s)

\* String(n) of a number whose fraction, if any, is a half
NumberToString(v) ==
    CASE v.cls = "nan" -> <<"N", "a", "N">>
      [] v.cls = "inf" -> <<"I", "n", "f", "i", "n", "i", "t", "y">>
      [] v.cls = "fin" ->
            LET neg == v.n < 0
                a == IF neg THEN 0 - v.n ELSE v.n
                body == NatToStr(a \div v.d)
                        \o (IF a % v.d = 0 THEN <<>> ELSE <<".", "5">>)
            IN  IF neg THEN <<"-">> \o body ELSE body

\* String(v) of a value that is not an array
ToStringScalar(v) ==
    CASE v.k = "undefined" -> <<"u", "n", "d", "e", "f", "i", "n", "e", "d">>
      [] v.k = "null" -> <<"n", "u", "l", "l">>
      [] v.k = "string" -> v.s
      [] v.k = "number" -> NumberToString(v)

\* A sequence of strings joined by commas; a null or undefined element of
\* an array joins as the empty string
RECURSIVE JoinComma(_)
JoinComma(a) ==
    IF a = <<>> THEN <<>>
    ELSE LET e == IF IsNullish(a[1]) THEN <<>> ELSE ToStringScalar(a[1])
         IN  IF Len(a) = 1 THEN e ELSE e \o <<",">> \o JoinComma(Tail(a))

\* String(v): an array is the comma-joined strings of its elements
JsString(v) == IF v.k = "array" THEN JoinComma(v.a) ELSE ToStringScalar(v)

\* Number(v): an array is converted through its string
JsNumber(v) ==
    CASE v.k = "undefined" -> NaN
      [] v.k = "null" -> Whole(0)
      [] v.k = "string" -> StringToNumber(v.s)
      [] v.k = "number" -> v
      [] v.k = "array" -> StringToNumber(JoinComma(v.a))

(***************************************************************************)
(* Objects: a sequence of entries [k |-> key, v |-> value] with distinct   *)
(* keys, in insertion order (no key is an integer index, so Object.entries *)
(* yields the entries in this order).                                      *)
(***************************************************************************)
HasKey(obj, k) == \E i \in 1..Len(obj) : obj[i].k = k

\* obj[k]: undefined when the key is absent
Get(obj, k) ==
    IF HasKey(obj, k)
    THEN obj[CHOOSE i \in 1..Len(obj) : obj[i].k = k].v
    ELSE Undef

KProto == <<"_", "_", "p", "r", "o", "t", "o", "_", "_">>

\* obj[k] = v on an object literal: assigning to the key __proto__ runs the
\* prototype setter and creates no own property; any other key is replaced
\* in place or appended
Assign(obj, k, v) ==
    IF k = KProto THEN obj
    ELSE IF HasKey(obj, k)
         THEN [i \in 1..Len(obj) |-> IF obj[i].k = k THEN [k |-> k, v |-> v] ELSE obj[i]]
    ELSE Append(obj, [k |-> k, v |-> v])

\* a ?? b
Coalesce(a, b) == IF IsNullish(a) THEN b ELSE a

(***************************************************************************)
(* The query parser.                                                       *)
(***************************************************************************)
KPage == <<"p", "a", "g", "e">>
KLimit == <<"l", "i", "m", "i", "t">>
KSearch == <<"s", "e", "a", "r", "c", "h">>
KSort == <<"s", "o", "r", "t">>
KOrder == <<"o", "r", "d", "e", "r">>
SAsc == <<"a", "s", "c">>
SDesc == <<"d", "e", "s", "c">>

RESERVED == {KPage, KLimit, KSearch, KSort, KOrder}

DefaultPage == 1
DefaultLimit == 20
MinLimit == 1
MaxLimit == 100

\* Math.floor of a finite number
Floor(num) == num.n \div num.d

\* posInt taking zero for a positive number
posIntAcceptsZero(v, fb) ==
    LET n == JsNumber(v)
    IN  IF n.cls = "fin" /\ n.n >= 0 THEN Whole(Floor(n)) ELSE fb

\* posInt(v, fb), fb a number
posInt(v, fb) ==
    LET n == JsNumber(v)
    IN  IF n.cls = "fin" /\ n.n > 0 THEN Whole(Floor(n)) ELSE fb

\* clamp(n, min, max) of a finite number: Math.min(max, Math.max(min, n))
clamp(n, min, max) ==
    IF n.n < min * n.d THEN Whole(min)
    ELSE IF n.n > max * n.d THEN Whole(max)
    ELSE n

\* str(v)
str(v) == IF v.k = "string" THEN v.s ELSE <<>>

\* s || undefined
OrUndefined(s) == IF s = <<>> THEN Undef ELSE Str(s)

\* The value stored for a raw value: v.map(String) of an array, String(v)
\* of anything else
FilterValue(v) ==
    IF v.k = "array" THEN Arr([i \in 1..Len(v.a) |-> Str(JsString(v.a[i]))])
    ELSE Str(JsString(v))

\* The loop over Object.entries(raw) that fills filters, started with the
\* filters filled so far
RECURSIVE ParseFilters(_, _)
ParseFilters(entries, filters) ==
    IF entries = <<>> THEN filters
    ELSE LET e == entries[1]
         IN  IF e.k \in RESERVED \/ IsNullish(e.v)
             THEN ParseFilters(Tail(entries), filters)
             ELSE ParseFilters(Tail(entries), Assign(filters, e.k, FilterValue(e.v)))

\* parseQuery(raw, defaults); the defaults are whole numbers, so page and
\* limit are whole
parseQuery(r, dflt) ==
    LET page == posInt(Get(r, KPage), Coalesce(Get(dflt, KPage), Whole(DefaultPage)))
        limit == clamp(posInt(Get(r, KLimit),
                              Coalesce(Get(dflt, KLimit), Whole(DefaultLimit))),
                       MinLimit, MaxLimit)
        search == str(Get(r, KSearch))
        sort == str(Get(r, KSort))
        order == IF Get(r, KOrder) = Str(SDesc) THEN Str(SDesc)
                 ELSE IF Get(r, KOrder) = Str(SAsc) THEN Str(SAsc)
                 ELSE Coalesce(Get(dflt, KOrder), Str(SAsc))
    IN  [page |-> page.n, limit |-> limit.n,
         search |-> OrUndefined(search), sort |-> OrUndefined(sort),
         order |-> order.s, filters |-> ParseFilters(r, <<>>)]

(***************************************************************************)
(* The query builder.  An SQL expression is a tree: a comparison of a      *)
(* column with a parameter, or / and nodes, an ordering term, or a bare    *)
(* column; NoSql is undefined.                                             *)
(***************************************************************************)
NoSql == [t |-> "none"]
Cmp(op, col, val) == [t |-> "cmp", op |-> op, col |-> col, val |-> val]
Or(l, r) == [t |-> "or", l |-> l, r |-> r]
And(parts) == [t |-> "and", parts |-> parts]
Column(col) == [t |-> "column", col |-> col]
Ordering(dir, col) == [t |-> "order", dir |-> dir, col |-> col]

\* The suffix table of parseFilterKey, in its order
SuffixMap ==
    << [suf |-> <<"_", "l", "i", "k", "e">>, op |-> "like"],
       [suf |-> <<"_", "g", "t", "e">>, op |-> "gte"],
       [suf |-> <<"_", "l", "t", "e">>, op |-> "lte"],
       [suf |-> <<"_", "g", "t">>, op |-> "gt"],
       [suf |-> <<"_", "l", "t">>, op |-> "lt"] >>

\* parseFilterKey slicing one character short: the underscore stays
parseFilterKeyKeepsUnderscore(k) ==
    IF \E i \in 1..Len(SuffixMap) : EndsWith(k, SuffixMap[i].suf)
    THEN LET i == CHOOSE i \in 1..Len(SuffixMap) : EndsWith(k, SuffixMap[i].suf)
         IN  [baseKey |-> SliceOffEnd(k, Len(SuffixMap[i].suf) - 1),
              op |-> SuffixMap[i].op]
    ELSE [baseKey |-> k, op |-> "eq"]

\* parseFilterKey(key): the first suffix of the table the key ends with
parseFilterKey(k) ==
    IF \E i \in 1..Len(SuffixMap) : EndsWith(k, SuffixMap[i].suf)
    THEN LET i == CHOOSE i \in 1..Len(SuffixMap) :
                      /\ EndsWith(k, SuffixMap[i].suf)
                      /\ \A j \in 1..(i - 1) : ~EndsWith(k, SuffixMap[j].suf)
         IN  [baseKey |-> SliceOffEnd(k, Len(SuffixMap[i].suf)), op |-> SuffixMap[i].op]
    ELSE [baseKey |-> k, op |-> "eq"]

\* buildOp(col, op, val)
buildOp(col, op, val) ==
    CASE op = "like" -> Cmp("ilike", col, <<"%">> \o val \o <<"%">>)
      [] op = "gt" -> Cmp("gt", col, val)
      [] op = "gte" -> Cmp("gte", col, val)
      [] op = "lt" -> Cmp("lt", col, val)
      [] op = "lte" -> Cmp("lte", col, val)
      [] OTHER -> Cmp("eq", col, val)

\* orJoin joining with and
RECURSIVE andJoin(_)
andJoin(parts) ==
    IF Len(parts) = 1 THEN parts[1]
    ELSE And(<<andJoin(SubSeq(parts, 1, Len(parts) - 1)), parts[Len(parts)]>>)

\* orJoin(parts), parts not empty: or(...or(or(p1, p2), p3)..., pn)
RECURSIVE orJoin(_)
orJoin(parts) ==
    IF Len(parts) = 1 THEN parts[1]
    ELSE Or(orJoin(SubSeq(parts, 1, Len(parts) - 1)), parts[Len(parts)])

\* columns[name]: the table's column of that name, or undefined
ColumnOf(table, name) == IF name \in table.cols THEN Column(name) ELSE NoSql

\* FilterPart without the whitelist test
FilterPartUnchecked(table, filterable, strict, e) ==
    LET pk == parseFilterKey(e.k)
        values == IF e.v.k = "array" THEN [i \in 1..Len(e.v.a) |-> e.v.a[i].s]
                  ELSE <<e.v.s>>
    IN  IF ColumnOf(table, pk.baseKey) = NoSql \/ Len(values) = 0 THEN <<>>
        ELSE <<orJoin([i \in 1..Len(values) |-> buildOp(pk.baseKey, pk.op, values[i])])>>

\* The where part one filters entry contributes: none, or one condition
FilterPart(table, filterable, strict, e) ==
    LET pk == parseFilterKey(e.k)
        col == ColumnOf(table, pk.baseKey)
        values == IF e.v.k = "array" THEN [i \in 1..Len(e.v.a) |-> e.v.a[i].s]
                  ELSE <<e.v.s>>
    IN  IF strict /\ ~Includes(filterable, pk.baseKey) THEN <<>>
        ELSE IF col = NoSql THEN <<>>
        ELSE IF Len(values) = 0 THEN <<>>
        ELSE IF pk.op = "eq"
             THEN (IF Len(values) = 1 THEN <<Cmp("eq", col.col, values[1])>>
                   ELSE <<orJoin([i \in 1..Len(values) |-> Cmp("eq", col.col, values[i])])>>)
        ELSE <<orJoin([i \in 1..Len(values) |-> buildOp(col.col, pk.op, values[i])])>>

\* The loop over Object.entries(query.filters)
RECURSIVE FilterParts(_, _, _, _)
FilterParts(table, filterable, strict, entries) ==
    IF entries = <<>> THEN <<>>
    ELSE FilterPart(table, filterable, strict, entries[1])
         \o FilterParts(table, filterable, strict, Tail(entries))

\* The ilike conditions of the search term, one per searchable column the
\* table has
RECURSIVE SearchOrs(_, _, _)
SearchOrs(table, searchable, term) ==
    IF searchable = <<>> THEN <<>>
    ELSE (IF ColumnOf(table, searchable[1]) # NoSql
          THEN <<Cmp("ilike", searchable[1], term)>> ELSE <<>>)
         \o SearchOrs(table, Tail(searchable), term)

\* SearchPart joining the columns' conditions with and
SearchPartAndJoined(table, searchable, search) ==
    IF search # Undef /\ search.s # <<>> /\ Len(searchable) > 0
    THEN LET ors == SearchOrs(table, searchable, <<"%">> \o search.s \o <<"%">>)
         IN  IF Len(ors) = 0 THEN <<>> ELSE <<andJoin(ors)>>
    ELSE <<>>

\* The where part of the search term: none, or one condition
SearchPart(table, searchable, search) ==
    IF search # Undef /\ search.s # <<>> /\ Len(searchable) > 0
    THEN LET ors == SearchOrs(table, searchable, <<"%">> \o search.s \o <<"%">>)
         IN  IF Len(ors) = 0 THEN <<>> ELSE <<orJoin(ors)>>
    ELSE <<>>

\* col.desc?.() ?? col and col.asc?.() ?? col: a column whose handle has no
\* asc / desc method is used as it is
OrderTerm(table, col, desc) ==
    IF col \in table.directed
    THEN Ordering(IF desc THEN "desc" ELSE "asc", col)
    ELSE Column(col)

\* The orderBy of buildQuery
BuildOrderBy(table, sortable, q) ==
    IF q.sort # Undef /\ q.sort.s # <<>> /\ Includes(sortable, q.sort.s)
       /\ ColumnOf(table, q.sort.s) # NoSql
    THEN OrderTerm(table, q.sort.s, q.order = SDesc)
    ELSE NoSql

\* The offset counted from page, not page - 1
BuildOffsetFromPage(q) == q.page * q.limit

\* The offset of buildQuery
BuildOffset(q) == (q.page - 1) * q.limit

\* buildQuery(o); strictFilters defaults to true
buildQuery(o) ==
    LET strict == IF o.strictFilters = Undef THEN TRUE ELSE o.strictFilters.b
        whereParts == FilterParts(o.table, o.filterable, strict, o.query.filters)
                      \o SearchPart(o.table, o.searchable, o.query.search)
        where == IF Len(whereParts) = 0 THEN NoSql
                 ELSE IF Len(whereParts) = 1 THEN whereParts[1]
                 ELSE And(whereParts)
    IN  [where |-> where,
         orderBy |-> BuildOrderBy(o.table, o.sortable, o.query),
         offset |-> BuildOffset(o.query),
         limit |-> o.query.limit]

(***************************************************************************)
(* Inputs.                                                                 *)
(***************************************************************************)
\* All sequences over S of length at most n
RECURSIVE SeqsUpTo(_, _)
SeqsUpTo(S, n) ==
    IF n = 0 THEN {<<>>}
    ELSE LET shorter == SeqsUpTo(S, n - 1)
         IN  shorter \cup {Append(q, x) : q \in shorter, x \in S}

\* The objects of at most n entries with keys from K and values from V
Objects(K, V, n) ==
    {o \in SeqsUpTo([k : K, v : V], n) :
        \A i, j \in 1..Len(o) : i # j => o[i].k # o[j].k}

Pending == [t |-> "pending"]
Unused == [t |-> "unused"]

\* Column names and filter keys
CTitle == <<"t", "i", "t", "l", "e">>
CKit == <<"k", "i", "t">>
CSecret == <<"s", "e", "c", "r", "e", "t">>
CGhost == <<"g", "h", "o", "s", "t">>
SA == <<"a">>
SB == <<"b">>
SC == <<"c">>

(***************************************************************************)
(* SpecKey: parseFilterKey and the condition built from it, for every key  *)
(* over the letters of the suffixes, up to MaxKeyLen letters.              *)
(***************************************************************************)
KeyLetters == {"_", "g", "t", "e", "l", "i", "k"}
KeyValue == <<"1", "8">>

InitKey ==
    /\ key \in SeqsUpTo(KeyLetters, MaxKeyLen)
    /\ keyOut = Pending
    /\ raw = Unused /\ defaults = Unused /\ parsed = Unused
    /\ opts = Unused /\ built = Unused
    /\ store = Unused /\ nextId = 0 /\ pc = "unused" /\ call = Unused
    /\ result = Unused

\* The key is decomposed, and a filters entry of that key is translated
\* against a table in which its base key is a filterable column
DecomposeKey ==
    /\ keyOut = Pending
    /\ LET pk == parseFilterKey(key)
       IN  keyOut' = [baseKey |-> pk.baseKey, op |-> pk.op,
                      part |-> FilterPart([cols |-> {pk.baseKey}, directed |-> {}],
                                          <<pk.baseKey>>, TRUE,
                                          [k |-> key, v |-> Str(KeyValue)])]
    /\ UNCHANGED <<key, raw, defaults, parsed, opts, built,
                   store, nextId, pc, call, result>>

NextKey == DecomposeKey

SpecKey == InitKey /\ [][NextKey]_vars

(***************************************************************************)
(* SpecParse: parseQuery over raw maps of at most MaxEntries entries.      *)
(***************************************************************************)
KKitGte == CKit \o <<"_", "g", "t", "e">>

\* The keys of a raw map: the reserved keys among themselves, reserved keys
\* beside a filter key, and filter keys among themselves
RawKeyGroups ==
    { {KPage, KLimit, KOrder}, {KSearch, KSort, CTitle}, {CTitle, KKitGte, KProto} }

RawValues ==
    { Undef, Null,
      Str(<<>>), Str(<<"a", "b", "c">>), Str(<<"3">>), Str(<<"0", ".", "5">>),
      Str(<<"-", "2">>), Str(<<"2", "5", "0">>), Str(SDesc),
      Str(<<"D", "E", "S", "C">>),
      Frac(5, 2), Inf,
      Arr(<<>>), Arr(<<Str(SA), Whole(7)>>) }

NoDefaults == <<>>
SomeDefaults ==
    << [k |-> KPage, v |-> Whole(2)], [k |-> KLimit, v |-> Whole(500)],
       [k |-> KOrder, v |-> Str(SDesc)] >>

InitParse ==
    /\ raw = <<>>
    /\ defaults \in {NoDefaults, SomeDefaults}
    /\ parsed = Pending
    /\ key = Unused /\ keyOut = Unused
    /\ opts = Unused /\ built = Unused
    /\ store = Unused /\ nextId = 0 /\ pc = "unused" /\ call = Unused
    /\ result = Unused

\* The caller fills the raw map, one entry after another
AddEntry ==
    /\ parsed = Pending
    /\ Len(raw) < MaxEntries
    /\ \E K \in RawKeyGroups :
          /\ \A i \in 1..Len(raw) : raw[i].k \in K
          /\ \E k \in K, v \in RawValues :
                /\ ~HasKey(raw, k)
                /\ raw' = Append(raw, [k |-> k, v |-> v])
    /\ UNCHANGED <<key, keyOut, defaults, parsed, opts, built,
                   store, nextId, pc, call, result>>

Parse ==
    /\ parsed = Pending
    /\ parsed' = parseQuery(raw, defaults)
    /\ UNCHANGED <<key, keyOut, raw, defaults, opts, built,
                   store, nextId, pc, call, result>>

NextParse == AddEntry \/ Parse

SpecParse == InitParse /\ [][NextParse]_vars

(***************************************************************************)
(* SpecBuild: buildQuery over filters of at most MaxEntries entries, the   *)
(* whitelists, the search term, the sort column and pages up to MaxPage.   *)
(***************************************************************************)
TableCols == {CTitle, CKit, CSecret}
Tables == {[cols |-> TableCols, directed |-> {}],
           [cols |-> TableCols, directed |-> TableCols]}

FilterKeys ==
    { CTitle, CTitle \o <<"_", "l", "i", "k", "e">>, CKit \o <<"_", "g", "t", "e">>,
      CSecret \o <<"_", "l", "t">>, CGhost }

FilterValues ==
    { Str(SA), Arr(<<>>), Arr(<<Str(SA)>>), Arr(<<Str(SA), Str(SB)>>),
      Arr(<<Str(SA), Str(SB), Str(SC)>>) }

Whitelists == {<<>>, <<CTitle>>, <<CTitle, CKit, CGhost>>, <<CSecret, CTitle>>}

BaseQuery ==
    [page |-> DefaultPage, limit |-> DefaultLimit, search |-> Undef,
     sort |-> Undef, order |-> SAsc, filters |-> <<>>]

\* The filters against the filterable whitelist and strictFilters
FilterInputs ==
    { [table |-> [cols |-> TableCols, directed |-> {}],
       searchable |-> <<>>, filterable |-> fl, sortable |-> <<>>,
       query |-> [BaseQuery EXCEPT !.filters = f],
       strictFilters |-> st] :
        f \in Objects(FilterKeys, FilterValues, MaxEntries),
        fl \in Whitelists \ {<<CSecret, CTitle>>},
        st \in {Undef, Bool(TRUE), Bool(FALSE)} }

\* The search term against the searchable whitelist, beside filters
SearchInputs ==
    { [table |-> [cols |-> TableCols, directed |-> {}],
       searchable |-> sl, filterable |-> <<CTitle, CKit>>, sortable |-> <<>>,
       query |-> [BaseQuery EXCEPT !.filters = f, !.search = se],
       strictFilters |-> Undef] :
        f \in Objects({CTitle, KKitGte}, {Str(SA), Arr(<<Str(SA), Str(SB)>>)}, MaxEntries),
        sl \in Whitelists \cup {<<CGhost>>},
        se \in {Undef, Str(SA), Str(<<"%">>)} }

\* The sort column against the sortable whitelist
SortInputs ==
    { [table |-> tb, searchable |-> <<>>, filterable |-> <<>>, sortable |-> sl,
       query |-> [BaseQuery EXCEPT !.sort = so, !.order = od],
       strictFilters |-> Undef] :
        tb \in Tables, sl \in Whitelists,
        so \in {Undef, Str(CTitle), Str(CKit), Str(CSecret), Str(CGhost)},
        od \in {SAsc, SDesc} }

MaxPage == 5

\* Every page up to MaxPage with every limit the parser can return
PageInputs ==
    { [table |-> [cols |-> TableCols, directed |-> {}],
       searchable |-> <<>>, filterable |-> <<>>, sortable |-> <<>>,
       query |-> [BaseQuery EXCEPT !.page = pg, !.limit = lm],
       strictFilters |-> Undef] :
        pg \in 1..MaxPage, lm \in MinLimit..MaxLimit }

InitBuild ==
    /\ opts \in FilterInputs \cup SearchInputs \cup SortInputs \cup PageInputs
    /\ built = Pending
    /\ key = Unused /\ keyOut = Unused
    /\ raw = Unused /\ defaults = Unused /\ parsed = Unused
    /\ store = Unused /\ nextId = 0 /\ pc = "unused" /\ call = Unused
    /\ result = Unused

Build ==
    /\ built = Pending
    /\ built' = buildQuery(opts)
    /\ UNCHANGED <<key, keyOut, raw, defaults, parsed, opts,
                   store, nextId, pc, call, result>>

NextBuild == Build

SpecBuild == InitBuild /\ [][NextBuild]_vars

(***************************************************************************)
(* The store: one table of rows [id, title, deletedAt], in heap order.     *)
(* deletedAt = NullTime is SQL NULL.  The generated service writes it.     *)
(***************************************************************************)
CDeletedAt == <<"d", "e", "l", "e", "t", "e", "d", "A", "t">>
NullTime == 0
Now == 1

IsNullOf(col) == [t |-> "isNull", col |-> col]

\* Characters in code-point order, and lower-casing
CharOrder == <<"%", "A", "B", "_", "a", "b", "c">>
Code(c) == CHOOSE i \in 1..Len(CharOrder) : CharOrder[i] = c
Lower(c) == IF c = "A" THEN "a" ELSE IF c = "B" THEN "b" ELSE c

\* s < t in code-point order
RECURSIVE StrLess(_, _)
StrLess(s, t) ==
    IF t = <<>> THEN FALSE
    ELSE IF s = <<>> THEN TRUE
    ELSE IF s[1] = t[1] THEN StrLess(Tail(s), Tail(t))
    ELSE Code(s[1]) < Code(t[1])

\* s ILIKE p: % matches any run of characters, _ any one character
RECURSIVE ILike(_, _)
ILike(s, p) ==
    IF p = <<>> THEN s = <<>>
    ELSE IF p[1] = "%"
         THEN ILike(s, Tail(p)) \/ (s # <<>> /\ ILike(Tail(s), p))
    ELSE /\ s # <<>>
         /\ p[1] = "_" \/ Lower(p[1]) = Lower(s[1])
         /\ ILike(Tail(s), Tail(p))

\* Whether a row satisfies a predicate; no predicate is satisfied by all
RECURSIVE Eval(_, _)
Eval(sql, row) ==
    CASE sql.t = "none" -> TRUE
      [] sql.t = "isNull" -> row.deletedAt = NullTime
      [] sql.t = "and" -> \A i \in 1..Len(sql.parts) : Eval(sql.parts[i], row)
      [] sql.t = "or" -> Eval(sql.l, row) \/ Eval(sql.r, row)
      [] sql.t = "cmp" ->
            CASE sql.op = "eq" -> row.title = sql.val
              [] sql.op = "ilike" -> ILike(row.title, sql.val)
              [] sql.op = "gt" -> StrLess(sql.val, row.title)
              [] sql.op = "gte" -> ~StrLess(row.title, sql.val)
              [] sql.op = "lt" -> StrLess(row.title, sql.val)
              [] sql.op = "lte" -> ~StrLess(sql.val, row.title)

\* The rows of the table that satisfy a predicate, in heap order
Matching(rows, sql) == SelectSeq(rows, LAMBDA r : Eval(sql, r))

\* Whether a sequence of rows is in the order an order expression asks for;
\* a bare column orders ascending, and no expression asks for nothing
InOrder(rows, orderBy) ==
    \A i \in 1..(Len(rows) - 1) :
        CASE orderBy.t = "none" -> TRUE
          [] orderBy.t = "column" -> ~StrLess(rows[i + 1].title, rows[i].title)
          [] orderBy.t = "order" ->
                IF orderBy.dir = "desc"
                THEN ~StrLess(rows[i].title, rows[i + 1].title)
                ELSE ~StrLess(rows[i + 1].title, rows[i].title)

\* The orderings of rows
Orderings(rows) ==
    { [i \in 1..Len(rows) |-> rows[f[i]]] :
        f \in {g \in [1..Len(rows) -> 1..Len(rows)] :
                  \A a, b \in 1..Len(rows) : a # b => g[a] # g[b]} }

\* What SELECT ... WHERE ... ORDER BY ... LIMIT ... OFFSET may return: the
\* store fixes the order of rows only as far as ORDER BY does
SelectResults(rows, q) ==
    { SubSeq(p, q.offset + 1, Min(Len(p), q.offset + q.limit)) :
        p \in {x \in Orderings(Matching(rows, q.where)) : InOrder(x, q.orderBy)} }

\* SELECT count(*) ... WHERE: the driver returns the bigint as a string
CountResult(rows, sql) == Str(NatToStr(Len(Matching(rows, sql))))

Titles == {SA, SB}

\* The writers are other requests.  They are followed up to the call's last
\* read of the store: a write after the data query changes nothing the call
\* does or returns
ReadsAhead == pc \in {"idle", "count", "data"}

\* What a failed query rejects with, and what a failed hook throws
StoreErrors == {"connection refused"}
HookErrors == {"hook threw"}

\* How often the call has attempted each of its three awaited steps; the
\* steps that have returned are kept beside it
NoAttempts == [count |-> 0, data |-> 0, hook |-> 0]

\* create<Module>
Create ==
    /\ ReadsAhead
    /\ nextId <= MaxRows
    /\ \E ti \in Titles :
          store' = Append(store, [id |-> nextId, title |-> ti, deletedAt |-> NullTime])
    /\ nextId' = nextId + 1
    /\ UNCHANGED <<key, keyOut, raw, defaults, parsed, opts, built, pc, call, result>>

\* delete<Module>: the soft delete
SoftDelete ==
    /\ ReadsAhead
    /\ \E i \in 1..Len(store) :
          /\ store[i].deletedAt = NullTime
          /\ store' = [store EXCEPT ![i].deletedAt = Now]
    /\ UNCHANGED <<key, keyOut, raw, defaults, parsed, opts, built,
                   nextId, pc, call, result>>

\* restore<Module>
Restore ==
    /\ ReadsAhead
    /\ \E i \in 1..Len(store) :
          /\ store[i].deletedAt # NullTime
          /\ store' = [store EXCEPT ![i].deletedAt = NullTime]
    /\ UNCHANGED <<key, keyOut, raw, defaults, parsed, opts, built,
                   nextId, pc, call, result>>

\* hardDelete<Module>
HardDelete ==
    /\ ReadsAhead
    /\ \E i \in 1..Len(store) :
          store' = SubSeq(store, 1, i - 1) \o SubSeq(store, i + 1, Len(store))
    /\ UNCHANGED <<key, keyOut, raw, defaults, parsed, opts, built,
                   nextId, pc, call, result>>

(***************************************************************************)
(* paginateTable.                                                          *)
(***************************************************************************)
\* The order expression of a defaultSort
DefaultOrderBy(table, defaultSort) ==
    IF ColumnOf(table, defaultSort.column) # NoSql
    THEN OrderTerm(table, defaultSort.column, defaultSort.direction = Str(SDesc))
    ELSE NoSql

\* finalOrderBy
FinalOrderBy(table, b, defaultSort) ==
    IF b.orderBy = NoSql /\ defaultSort # Undef
    THEN DefaultOrderBy(table, defaultSort)
    ELSE b.orderBy

\* finalWhere
FinalWhere(b, where) ==
    IF b.where # NoSql /\ where # NoSql THEN And(<<b.where, where>>)
    ELSE IF b.where # NoSql THEN b.where
    ELSE where

\* The count query
CountQueryOf(c) == [where |-> c.finalWhere]

\* The data query
DataQueryOf(c) ==
    [where |-> c.built.where, orderBy |-> c.finalOrderBy,
     limit |-> c.built.limit, offset |-> c.built.offset]

\* Math.ceil(a / b) of whole numbers, b > 0
CeilDiv(a, b) == (a + b - 1) \div b

\* totalPages without the floor of 1
TotalPagesUnfloored(total, limit) == CeilDiv(total, limit)

\* totalPages
TotalPages(total, limit) == Max(1, CeilDiv(total, limit))

\* A hook: it returns the rows it is given in reverse
Reverse(rows) == [i \in 1..Len(rows) |-> rows[Len(rows) + 1 - i]]

ItemCols == {CTitle, CDeletedAt}

\* The raw queries of the calls
CallRaws ==
    { <<>>,
      << [k |-> KLimit, v |-> Str(<<"1">>)] >>,
      << [k |-> KLimit, v |-> Str(<<"2">>)], [k |-> KPage, v |-> Str(<<"2">>)] >>,
      << [k |-> CTitle, v |-> Str(SA)] >>,
      << [k |-> CTitle \o <<"_", "g", "t", "e">>, v |-> Str(SB)],
         [k |-> KLimit, v |-> Str(<<"2">>)] >>,
      << [k |-> KSearch, v |-> Str(SA)] >> }

SortRaws ==
    { <<>>,
      << [k |-> KSort, v |-> Str(CTitle)] >>,
      << [k |-> KSort, v |-> Str(CTitle)], [k |-> KOrder, v |-> Str(SDesc)] >>,
      << [k |-> KSort, v |-> Str(CDeletedAt)] >> }

DefaultSorts ==
    { Undef,
      [column |-> CTitle, direction |-> Undef],
      [column |-> CTitle, direction |-> Str(SDesc)] }

\* list<Module>(rawQuery): the arguments it calls paginateTable with; it
\* passes no where, no hook and no defaultSort.  The column title stands for
\* the template's name column, in all three whitelists; createdAt and
\* updatedAt are not kept
ListModuleArgs(rawQuery) ==
    [table |-> [cols |-> ItemCols, directed |-> {}],
     parsed |-> parseQuery(rawQuery, NoDefaults),
     searchable |-> <<CTitle>>, filterable |-> <<CTitle>>, sortable |-> <<CTitle>>,
     where |-> NoSql, hook |-> "none", defaultSort |-> Undef]

\* The arguments of the calls: list<Module>, the queries against a caller's
\* predicate, a hook, and the sorts against defaultSort and the column
\* handles
CallInputs ==
    { ListModuleArgs(r) : r \in CallRaws }
    \cup
    { [table |-> [cols |-> ItemCols, directed |-> {}],
       parsed |-> parseQuery(r, NoDefaults),
       searchable |-> <<CTitle>>, filterable |-> <<CTitle>>, sortable |-> <<CTitle>>,
       where |-> IsNullOf(CDeletedAt), hook |-> "none", defaultSort |-> Undef] :
        r \in CallRaws }
    \cup
    { [table |-> [cols |-> ItemCols, directed |-> {}],
       parsed |-> parseQuery(<<>>, NoDefaults),
       searchable |-> <<CTitle>>, filterable |-> <<CTitle>>, sortable |-> <<CTitle>>,
       where |-> w, hook |-> "reverse", defaultSort |-> Undef] :
        w \in {NoSql, IsNullOf(CDeletedAt)} }
    \cup
    { [table |-> [cols |-> ItemCols, directed |-> d],
       parsed |-> parseQuery(r, NoDefaults),
       searchable |-> <<CTitle>>, filterable |-> <<CTitle>>, sortable |-> <<CTitle>>,
       where |-> NoSql, hook |-> "none", defaultSort |-> ds] :
        r \in SortRaws, d \in {{}, ItemCols}, ds \in DefaultSorts }

Init ==
    /\ store = <<>>
    /\ nextId = 1
    /\ pc = "idle"
    /\ call = Unused
    /\ result = Unused
    /\ key = Unused /\ keyOut = Unused
    /\ raw = Unused /\ defaults = Unused /\ parsed = Unused
    /\ opts = Unused /\ built = Unused

\* paginateTable is called: lines 63-97, up to the await of the count query
PaginateTable ==
    /\ pc = "idle"
    /\ \E a \in CallInputs :
          LET b == buildQuery([table |-> a.table, searchable |-> a.searchable,
                               filterable |-> a.filterable, sortable |-> a.sortable,
                               query |-> a.parsed, strictFilters |-> Undef])
          IN  call' = [args |-> a, built |-> b,
                       finalOrderBy |-> FinalOrderBy(a.table, b, a.defaultSort),
                       finalWhere |-> FinalWhere(b, a.where),
                       count |-> Undef, countQuery |-> Unused,
                       dataQuery |-> Unused, rows |-> <<>>,
                       attempts |-> NoAttempts, returned |-> {}]
    /\ pc' = "count"
    /\ UNCHANGED <<key, keyOut, raw, defaults, parsed, opts, built,
                   store, nextId, result>>

\* The count query is answered
CountQuery ==
    /\ pc = "count"
    /\ call' = [call EXCEPT
                  !.countQuery = CountQueryOf(call),
                  !.count = CountResult(store, CountQueryOf(call).where),
                  !.attempts.count = @ + 1,
                  !.returned = @ \cup {"count"}]
    /\ pc' = "data"
    /\ UNCHANGED <<key, keyOut, raw, defaults, parsed, opts, built,
                   store, nextId, result>>

\* The count query rejects: the await throws, nothing catches it, and the
\* call rejects with the error
CountQueryFails ==
    /\ pc = "count"
    /\ \E e \in StoreErrors :
          /\ call' = [call EXCEPT !.countQuery = CountQueryOf(call),
                                  !.attempts.count = @ + 1]
          /\ result' = [failedAt |-> "count", thrown |-> e, error |-> e]
    /\ pc' = "failed"
    /\ UNCHANGED <<key, keyOut, raw, defaults, parsed, opts, built, store, nextId>>

\* The data query issued while the count query is awaited
DataQueryBesideCount ==
    /\ pc \in {"count", "data"}
    /\ \E rs \in SelectResults(store, DataQueryOf(call)) :
          call' = [call EXCEPT !.dataQuery = DataQueryOf(call), !.rows = rs,
                               !.attempts.data = @ + 1,
                               !.returned = @ \cup {"data"}]
    /\ pc' = IF call.args.hook = "none" THEN "return" ELSE "hook"
    /\ UNCHANGED <<key, keyOut, raw, defaults, parsed, opts, built,
                   store, nextId, result>>

\* The data query is issued and answered
DataQuery ==
    /\ pc = "data"
    /\ \E rs \in SelectResults(store, DataQueryOf(call)) :
          call' = [call EXCEPT !.dataQuery = DataQueryOf(call), !.rows = rs,
                               !.attempts.data = @ + 1,
                               !.returned = @ \cup {"data"}]
    /\ pc' = IF call.args.hook = "none" THEN "return" ELSE "hook"
    /\ UNCHANGED <<key, keyOut, raw, defaults, parsed, opts, built,
                   store, nextId, result>>

\* The data query rejected and issued again
DataQueryFailsRetried ==
    /\ pc = "data"
    /\ call.attempts.data < 2
    /\ call' = [call EXCEPT !.dataQuery = DataQueryOf(call),
                            !.attempts.data = @ + 1]
    /\ UNCHANGED <<key, keyOut, raw, defaults, parsed, opts, built,
                   store, nextId, pc, result>>

\* The data query rejects: the call rejects with the error
DataQueryFails ==
    /\ pc = "data"
    /\ \E e \in StoreErrors :
          /\ call' = [call EXCEPT !.dataQuery = DataQueryOf(call),
                                  !.attempts.data = @ + 1]
          /\ result' = [failedAt |-> "data", thrown |-> e, error |-> e]
    /\ pc' = "failed"
    /\ UNCHANGED <<key, keyOut, raw, defaults, parsed, opts, built, store, nextId>>

\* The hook transforms the rows
RunHook ==
    /\ pc = "hook"
    /\ call' = [call EXCEPT !.rows = Reverse(call.rows), !.attempts.hook = @ + 1,
                            !.returned = @ \cup {"hook"}]
    /\ pc' = "return"
    /\ UNCHANGED <<key, keyOut, raw, defaults, parsed, opts, built,
                   store, nextId, result>>

\* The hook throws or rejects: the call rejects with the error
HookFails ==
    /\ pc = "hook"
    /\ \E e \in HookErrors :
          /\ call' = [call EXCEPT !.attempts.hook = @ + 1]
          /\ result' = [failedAt |-> "hook", thrown |-> e, error |-> e]
    /\ pc' = "failed"
    /\ UNCHANGED <<key, keyOut, raw, defaults, parsed, opts, built, store, nextId>>

\* The page envelope is returned
Return ==
    /\ pc = "return"
    /\ LET total == JsNumber(call.count).n
       IN  result' = [data |-> call.rows,
                      page |-> call.args.parsed.page,
                      limit |-> call.args.parsed.limit,
                      total |-> total,
                      totalPages |-> TotalPages(total, call.built.limit)]
    /\ pc' = "done"
    /\ UNCHANGED <<key, keyOut, raw, defaults, parsed, opts, built,
                   store, nextId, call>>

Next ==
    \/ PaginateTable
    \/ CountQuery
    \/ CountQueryFails
    \/ DataQuery
    \/ DataQueryFails
    \/ RunHook
    \/ HookFails
    \/ Return
    \/ Create
    \/ SoftDelete
    \/ Restore
    \/ HardDelete

Spec == Init /\ [][Next]_vars

(***************************************************************************)
(* Helpers of the properties.                                              *)
(***************************************************************************)
\* s is b followed by suf, for some b
HasSuffix(s, suf) == \E n \in 0..Len(s) : s = SubSeq(s, 1, n) \o suf

\* The comparison a filter operator stands for
CondOf(op, col, val) ==
    IF op = "like" THEN Cmp("ilike", col, <<"%">> \o val \o <<"%">>)
    ELSE Cmp(op, col, val)

\* The conditions of an or-tree, left to right; a tree holding anything
\* but or nodes and comparisons has none
RECURSIVE OrLeaves(_)
OrLeaves(sql) ==
    IF sql.t = "cmp" THEN <<sql>>
    ELSE IF sql.t = "or"
         THEN (IF OrLeaves(sql.l) = <<>> \/ OrLeaves(sql.r) = <<>> THEN <<>>
               ELSE OrLeaves(sql.l) \o OrLeaves(sql.r))
    ELSE <<>>

\* The conjuncts of a predicate
TopParts(sql) ==
    IF sql = NoSql THEN <<>>
    ELSE IF sql.t = "and" THEN sql.parts
    ELSE <<sql>>

\* Every comparison of a predicate
RECURSIVE AllLeaves(_)
AllLeaves(sql) ==
    IF sql.t = "cmp" THEN {sql}
    ELSE IF sql.t = "or" THEN AllLeaves(sql.l) \cup AllLeaves(sql.r)
    ELSE IF sql.t = "and"
         THEN UNION {AllLeaves(sql.parts[i]) : i \in 1..Len(sql.parts)}
    ELSE {}

\* The values of a filters entry
ValuesOf(e) ==
    IF e.v.k = "array" THEN [i \in 1..Len(e.v.a) |-> e.v.a[i].s] ELSE <<e.v.s>>

ReservedNames ==
    { <<"p", "a", "g", "e">>, <<"l", "i", "m", "i", "t">>,
      <<"s", "e", "a", "r", "c", "h">>, <<"s", "o", "r", "t">>,
      <<"o", "r", "d", "e", "r">> }

(***************************************************************************)
(* C1.  For every raw map, parseQuery(raw) called without defaults returns *)
(* a page that is an integer >= 1 and a limit that is an integer in        *)
(* [1, 100].  The page half fails: posInt floors a number in (0, 1) to 0,  *)
(* and only the limit is clamped.                                          *)
(***************************************************************************)
C1_PageAndLimitInRange ==
    (parsed # Pending /\ defaults = NoDefaults)
        => /\ parsed.page >= 1
           /\ parsed.limit \in 1..100

(***************************************************************************)
(* C10.  For every raw map, the filters of parseQuery(raw) hold exactly    *)
(* the raw keys that are not reserved and whose value is not null or       *)
(* undefined: no reserved key, no other key lost, an array as the list of  *)
(* its stringified elements in order, a scalar as one string.  The key     *)
(* __proto__ is lost: assigning it to the filters object creates no entry. *)
(***************************************************************************)
C10_FiltersExact ==
    parsed # Pending =>
        /\ \A i \in 1..Len(parsed.filters) : parsed.filters[i].k \notin ReservedNames
        /\ \A j \in 1..Len(raw) :
              (raw[j].k \notin ReservedNames /\ raw[j].v \notin {Undef, Null})
                  => \E i \in 1..Len(parsed.filters) :
                        /\ parsed.filters[i].k = raw[j].k
                        /\ IF raw[j].v.k = "array"
                           THEN /\ parsed.filters[i].v.k = "array"
                                /\ Len(parsed.filters[i].v.a) = Len(raw[j].v.a)
                                /\ \A n \in 1..Len(raw[j].v.a) :
                                      parsed.filters[i].v.a[n]
                                          = Str(JsString(raw[j].v.a[n]))
                           ELSE parsed.filters[i].v = Str(JsString(raw[j].v))
        /\ \A i \in 1..Len(parsed.filters) :
              \E j \in 1..Len(raw) :
                  /\ raw[j].k = parsed.filters[i].k
                  /\ raw[j].v \notin {Undef, Null}
        /\ \A i, j \in 1..Len(parsed.filters) :
              i # j => parsed.filters[i].k # parsed.filters[j].k

(***************************************************************************)
(* C8.  A filter key is decomposed by testing the suffixes _like, _gte,    *)
(* _lte, _gt, _lt in that order: the first one the key ends with gives the *)
(* operator, and the base key is the key without exactly that suffix; a    *)
(* key ending in none of them has operator eq and is its own base key.     *)
(* The condition built is the operator's comparison of the base key's      *)
(* column with the value (a pattern match wraps the value in %).           *)
(***************************************************************************)
C8_KeyDecomposition ==
    keyOut # Pending =>
        LET like == <<"_", "l", "i", "k", "e">>
            gte == <<"_", "g", "t", "e">>
            lte == <<"_", "l", "t", "e">>
            gt == <<"_", "g", "t">>
            lt == <<"_", "l", "t">>
            suf == IF HasSuffix(key, like) THEN like
                   ELSE IF HasSuffix(key, gte) THEN gte
                   ELSE IF HasSuffix(key, lte) THEN lte
                   ELSE IF HasSuffix(key, gt) THEN gt
                   ELSE IF HasSuffix(key, lt) THEN lt
                   ELSE <<>>
            op == SubSeq(suf, 2, Len(suf))
        IN  /\ keyOut.baseKey \o suf = key
            /\ keyOut.op = (CASE op = <<>> -> "eq"
                              [] op = <<"l", "i", "k", "e">> -> "like"
                              [] op = <<"g", "t", "e">> -> "gte"
                              [] op = <<"l", "t", "e">> -> "lte"
                              [] op = <<"g", "t">> -> "gt"
                              [] op = <<"l", "t">> -> "lt"
                              [] OTHER -> "eq")
            /\ keyOut.part = <<CondOf(keyOut.op, keyOut.baseKey, KeyValue)>>

\* A key ending in _gte gives a greater-or-equal condition on its base key
C8_Witness ==
    /\ key = <<"e", "_", "g", "t", "e">>
    /\ keyOut # Pending
    /\ keyOut.baseKey = <<"e">>
    /\ keyOut.op = "gte"
    /\ keyOut.part = <<Cmp("gte", <<"e">>, KeyValue)>>

(***************************************************************************)
(* Properties of buildQuery, over SpecBuild.                               *)
(***************************************************************************)
\* strictFilters is true, given or by default
IsStrict == opts.strictFilters = Undef \/ opts.strictFilters = Bool(TRUE)

\* The filters entry survives the whitelist, the column lookup and the
\* empty-list test
Survives(e) ==
    LET b == parseFilterKey(e.k).baseKey
    IN  /\ IsStrict => Includes(opts.filterable, b)
        /\ b \in opts.table.cols
        /\ Len(ValuesOf(e)) > 0

\* The search term gives a condition
SearchApplies ==
    /\ opts.query.search # Undef
    /\ \E i \in 1..Len(opts.searchable) : opts.searchable[i] \in opts.table.cols

\* A condition the search term gives
IsSearchLeaf(c) ==
    /\ opts.query.search # Undef
    /\ c.op = "ilike"
    /\ c.val = <<"%">> \o opts.query.search.s \o <<"%">>
    /\ Includes(opts.searchable, c.col)

(***************************************************************************)
(* C3.  With strictFilters true (the default), every filter condition of   *)
(* the predicate is on a column whose base key is in the filterable        *)
(* whitelist and in the table; every other entry is skipped, and with      *)
(* nothing surviving and no search the predicate is absent.                *)
(***************************************************************************)
C3_OnlyWhitelistedFilters ==
    (built # Pending /\ IsStrict) =>
        /\ \A c \in AllLeaves(built.where) :
              \/ Includes(opts.filterable, c.col) /\ c.col \in opts.table.cols
              \/ IsSearchLeaf(c)
        /\ \A i \in 1..Len(opts.query.filters) :
              LET e == opts.query.filters[i]
                  b == parseFilterKey(e.k).baseKey
              IN  (~Includes(opts.filterable, b) /\ ~SearchApplies)
                      => \A c \in AllLeaves(built.where) : c.col # b
        /\ ((\A i \in 1..Len(opts.query.filters) : ~Survives(opts.query.filters[i]))
                /\ ~SearchApplies)
              => built.where = NoSql

\* filterable = [title], filters = {title: "a", secret_lt: "a"}: the
\* predicate is title = "a" alone
C3_Witness ==
    /\ built # Pending
    /\ opts.strictFilters = Undef
    /\ opts.filterable = <<CTitle>>
    /\ opts.query.search = Undef
    /\ opts.query.filters = << [k |-> CTitle, v |-> Str(SA)],
                               [k |-> CSecret \o <<"_", "l", "t">>, v |-> Str(SA)] >>
    /\ built.where = Cmp("eq", CTitle, SA)

(***************************************************************************)
(* C4.  buildQuery gives an order expression exactly when query.sort names *)
(* a column in the sortable whitelist and in the table, and the expression *)
(* then orders by that column in the direction query.order.  The direction *)
(* is lost for a column whose handle has no asc / desc method: the bare    *)
(* column is the expression, and a bare column orders ascending.           *)
(***************************************************************************)
\* The direction an order expression sorts in
DirectionOf(expr) == IF expr.t = "order" THEN expr.dir ELSE "asc"

C4_OrderOnlyWhitelisted ==
    built # Pending =>
        LET q == opts.query
            honoured == /\ q.sort # Undef
                        /\ Includes(opts.sortable, q.sort.s)
                        /\ q.sort.s \in opts.table.cols
        IN  IF honoured
            THEN /\ built.orderBy # NoSql
                 /\ built.orderBy.col = q.sort.s
                 /\ DirectionOf(built.orderBy) = (IF q.order = SDesc THEN "desc" ELSE "asc")
            ELSE built.orderBy = NoSql

(***************************************************************************)
(* C7.  For every page >= 1 and limit in [1, 100], buildQuery returns      *)
(* offset = (page - 1) * limit and the limit unchanged, and the page is    *)
(* recovered as offset / limit + 1.                                        *)
(***************************************************************************)
C7_OffsetRoundTrip ==
    built # Pending =>
        /\ built.limit = opts.query.limit
        /\ built.offset = (opts.query.page - 1) * opts.query.limit
        /\ (built.offset \div built.limit) + 1 = opts.query.page
        /\ built.offset % built.limit = 0

\* page = 3, limit = 20: offset = 40
C7_Witness ==
    /\ built # Pending
    /\ opts.query.page = 3 /\ opts.query.limit = 20
    /\ built.offset = 40 /\ built.limit = 20

(***************************************************************************)
(* C9.  The conditions of the values of one filter key are joined by OR,   *)
(* one per value (one value: that condition alone; no value: nothing), and *)
(* the conditions of the keys are joined by AND in the insertion order of  *)
(* the filters map.                                                        *)
(***************************************************************************)
C9_OrWithinAndAcross ==
    built # Pending =>
        LET surv == SelectSeq(opts.query.filters, Survives)
            parts == TopParts(built.where)
            nSearch == IF SearchApplies THEN 1 ELSE 0
        IN  /\ Len(parts) = Len(surv) + nSearch
            /\ Len(parts) > 1 => built.where.t = "and"
            /\ \A i \in 1..Len(surv) :
                  LET pk == parseFilterKey(surv[i].k)
                      vals == ValuesOf(surv[i])
                  IN  /\ i <= Len(parts)
                      /\ OrLeaves(parts[i])
                            = [j \in 1..Len(vals) |-> CondOf(pk.op, pk.baseKey, vals[j])]
                      /\ (Len(vals) = 1) = (parts[i].t = "cmp")

\* filters = {title: ["a", "b"], kit_gte: "a"}, both filterable:
\* (title = a OR title = b) AND kit >= a
C9_Witness ==
    /\ built # Pending
    /\ opts.query.filters = << [k |-> CTitle, v |-> Arr(<<Str(SA), Str(SB)>>)],
                               [k |-> KKitGte, v |-> Str(SA)] >>
    /\ opts.query.search = Undef
    /\ IsStrict
    /\ built.where = And(<< Or(Cmp("eq", CTitle, SA), Cmp("eq", CTitle, SB)),
                            Cmp("gte", CKit, SA) >>)

(***************************************************************************)
(* Properties of paginateTable, over Spec.                                 *)
(***************************************************************************)
\* The call has issued its data query
Fetched == pc \in {"hook", "return", "done"}

(***************************************************************************)
(* C2.  paginateTable resolves one predicate (the built predicate AND the  *)
(* caller's when both are present, else whichever is present, else none)   *)
(* and uses it for both the count query and the data query, so every row   *)
(* returned satisfies the caller's predicate.  The data query is issued    *)
(* with the built predicate alone: the caller's predicate is left out.     *)
(***************************************************************************)
C2_SamePredicateForCountAndData ==
    Fetched =>
        LET b == call.built.where
            w == call.args.where
            resolved == IF b # NoSql /\ w # NoSql THEN And(<<b, w>>)
                        ELSE IF b # NoSql THEN b ELSE w
        IN  /\ call.countQuery.where = resolved
            /\ call.dataQuery.where = resolved
            /\ \A i \in 1..Len(call.rows) : Eval(w, call.rows[i])

(***************************************************************************)
(* C5.  The ordering of the data query is the explicit whitelisted sort    *)
(* when there is one (defaultSort is ignored); else, with a defaultSort,   *)
(* its column in its own direction (descending only for "desc"); else      *)
(* none.  The direction is lost for a column whose handle has no asc /     *)
(* desc method, as in buildQuery (C4).                                     *)
(***************************************************************************)
C5_OrderingPriority ==
    Fetched =>
        LET a == call.args
            explicit == /\ a.parsed.sort # Undef
                        /\ Includes(a.sortable, a.parsed.sort.s)
                        /\ a.parsed.sort.s \in a.table.cols
            o == call.dataQuery.orderBy
        IN  IF explicit
            THEN o # NoSql /\ o.col = a.parsed.sort.s
            ELSE IF a.defaultSort # Undef
                 THEN /\ o # NoSql
                      /\ o.col = a.defaultSort.column
                      /\ DirectionOf(o) = (IF a.defaultSort.direction = Str(SDesc)
                                           THEN "desc" ELSE "asc")
            ELSE o = NoSql

(***************************************************************************)
(* C6.  For every total the count query returns and every limit in         *)
(* [1, 100], totalPages = max(1, ceil(total / limit)): never below 1, 1    *)
(* for total = 0; and the envelope's total is the count query's result.    *)
(***************************************************************************)
C6_TotalPages ==
    pc = "done" =>
        /\ result.limit \in 1..100
        /\ call.count = Str(NatToStr(result.total))
        /\ result.totalPages >= 1
        /\ result.total = 0 => result.totalPages = 1
        /\ result.total > 0 =>
              /\ (result.totalPages - 1) * result.limit < result.total
              /\ result.total <= result.totalPages * result.limit

\* Three rows counted, two to a page: two pages
C6_Witness ==
    /\ pc = "done"
    /\ result.total = 3 /\ result.limit = 2 /\ result.totalPages = 2

\* Nothing counted: one page, no rows
C6_WitnessEmpty ==
    /\ pc = "done"
    /\ result.total = 0 /\ result.totalPages = 1 /\ result.data = <<>>

(***************************************************************************)
(* C11.  parseQuery always returns a ParsedQuery.  A raw.page whose number *)
(* is NaN, infinite or <= 0 yields defaults.page, or 1 without one         *)
(* (parseQuery({page: "abc"}).page = 1), and a raw.order that is not       *)
(* exactly the string "asc" or "desc" ("DESC" is not) yields               *)
(* defaults.order, or "asc" without one.                                   *)
(***************************************************************************)
C11_MalformedDegradesToDefaults ==
    parsed # Pending =>
        LET n == JsNumber(Get(raw, KPage))
            o == Get(raw, KOrder)
            fbPage == IF HasKey(defaults, KPage) THEN Get(defaults, KPage).n ELSE 1
            fbOrder == IF HasKey(defaults, KOrder) THEN Get(defaults, KOrder).s
                       ELSE <<"a", "s", "c">>
        IN  /\ DOMAIN parsed = {"page", "limit", "search", "sort", "order", "filters"}
            /\ (n.cls # "fin" \/ n.n <= 0) => parsed.page = fbPage
            /\ (Get(raw, KPage) = Str(<<"a", "b", "c">>) /\ defaults = NoDefaults)
                  => parsed.page = 1
            /\ o \notin {Str(<<"a", "s", "c">>), Str(<<"d", "e", "s", "c">>)}
                  => parsed.order = fbOrder
            /\ (o = Str(<<"D", "E", "S", "C">>) /\ defaults = NoDefaults)
                  => parsed.order = <<"a", "s", "c">>
            /\ o = Str(<<"d", "e", "s", "c">>) => parsed.order = <<"d", "e", "s", "c">>

\* page "abc" and order "DESC" without defaults: page 1, order "asc"
C11_Witness ==
    /\ parsed # Pending
    /\ defaults = NoDefaults
    /\ Get(raw, KPage) = Str(<<"a", "b", "c">>)
    /\ Get(raw, KOrder) = Str(<<"D", "E", "S", "C">>)
    /\ parsed.page = 1 /\ parsed.order = <<"a", "s", "c">>

\* A null page and an array order with defaults: the defaults
C11_WitnessDefaults ==
    /\ parsed # Pending
    /\ defaults = SomeDefaults
    /\ Get(raw, KPage) = Null
    /\ Get(raw, KOrder).k = "array"
    /\ parsed.page = 2 /\ parsed.order = <<"d", "e", "s", "c">>

(***************************************************************************)
(* Properties of the search condition, over SpecBuild.                     *)
(***************************************************************************)
\* The number of filters entries that give a condition
SurvivorCount ==
    Cardinality({i \in 1..Len(opts.query.filters) : Survives(opts.query.filters[i])})

\* The pattern of the search term
SearchTerm == <<"%">> \o opts.query.search.s \o <<"%">>

\* The pattern matches of the search term on the columns cols, in order
SearchMatches(cols) == [i \in 1..Len(cols) |-> Cmp("ilike", cols[i], SearchTerm)]

\* The searchable names that are columns of the table, in order
SearchableColumns ==
    LET InTable(c) == c \in opts.table.cols
    IN  SelectSeq(opts.searchable, InTable)

C12_WitnessNoWhitelist ==
    /\ built # Pending
    /\ opts.query.search = Str(SA)
    /\ opts.searchable = <<>>
    /\ opts.query.filters = <<>>
    /\ built.where = NoSql

(***************************************************************************)
(* C13.  Within one call the count query has completed before the data     *)
(* query is issued, and the hook runs only after the data query has        *)
(* returned.  The two queries are not atomic: writers step between them    *)
(* (C13_Witness: a returned total that is not the number of rows matching  *)
(* the predicate when the data was read).                                  *)
(***************************************************************************)
C13_CountThenDataThenHook ==
    call # Unused =>
        /\ call.attempts.data > 0
              => ("count" \in call.returned /\ call.count # Undef)
        /\ call.attempts.hook > 0 => "data" \in call.returned
        /\ pc = "count" => (call.attempts = NoAttempts /\ call.count = Undef)
        /\ pc = "data" => (call.returned = {"count"} /\ call.attempts.data = 0)
        /\ pc = "hook" => (call.returned = {"count", "data"} /\ call.attempts.hook = 0)

\* A call without a caller's predicate returns total = 0 beside a row: the
\* row was created between the two queries.  No write follows the data
\* query, so the store is the one the data was read from
C13_Witness ==
    /\ pc = "done"
    /\ call.args.where = NoSql
    /\ call.countQuery.where = call.dataQuery.where
    /\ result.total = 0
    /\ Len(result.data) > 0
    /\ result.total # Len(Matching(store, call.dataQuery.where))

\* A total above the number of matching rows: a row was removed between the
\* two queries
C13_WitnessStaleTotal ==
    /\ pc = "done"
    /\ call.args.where = NoSql
    /\ result.total > Len(Matching(store, call.dataQuery.where))

(***************************************************************************)
(* C14.  Each of the count query, the data query and the hook is attempted *)
(* at most once per call.  A failed count query fails the call with its    *)
(* error, and neither the data query nor the hook is attempted; after a    *)
(* failed data query the hook is not invoked; a failed hook's error is the *)
(* call's outcome; no failed call returns a page envelope.                 *)
(***************************************************************************)
C14_FailuresPropagate ==
    call # Unused =>
        /\ call.attempts.count <= 1
        /\ call.attempts.data <= 1
        /\ call.attempts.hook <= 1
        /\ pc = "failed" =>
              /\ DOMAIN result \cap {"data", "page", "limit", "total", "totalPages"} = {}
              /\ result.error = result.thrown
              /\ result.failedAt = "count"
                    => (call.attempts = [count |-> 1, data |-> 0, hook |-> 0]
                        /\ result.error \in StoreErrors)
              /\ result.failedAt = "data"
                    => (call.attempts = [count |-> 1, data |-> 1, hook |-> 0]
                        /\ result.error \in StoreErrors)
              /\ result.failedAt = "hook"
                    => (call.attempts = [count |-> 1, data |-> 1, hook |-> 1]
                        /\ result.error \in HookErrors)
        /\ pc = "done" =>
              /\ DOMAIN result = {"data", "page", "limit", "total", "totalPages"}
              /\ call.attempts.count = 1 /\ call.attempts.data = 1
              /\ call.attempts.hook = (IF call.args.hook = "none" THEN 0 ELSE 1)

\* The data query of a call with a hook fails: the hook is not invoked
C14_Witness ==
    /\ pc = "failed"
    /\ result.failedAt = "data"
    /\ call.args.hook = "reverse"
    /\ call.attempts = [count |-> 1, data |-> 1, hook |-> 0]

\* The count query fails: the data query is not attempted
C14_WitnessCount ==
    /\ pc = "failed"
    /\ result.failedAt = "count"
    /\ call.attempts = [count |-> 1, data |-> 0, hook |-> 0]
    /\ call.dataQuery = Unused

\* The hook fails: its error is the outcome
C14_WitnessHook ==
    /\ pc = "failed"
    /\ result.failedAt = "hook"
    /\ result.error \in HookErrors

(***************************************************************************)
(* C15.  list<Module> shows only non-deleted records: no row it counts     *)
(* into its total and no row of the data it returns has deletedAt set.     *)
(* list<Module> passes no predicate on deletedAt, so both fail once a row  *)
(* is soft-deleted.                                                        *)
(***************************************************************************)
\* The call is one of list<Module>
IsListCall == call # Unused /\ \E r \in CallRaws : call.args = ListModuleArgs(r)

C15_ListShowsOnlyNonDeleted ==
    /\ [](IsListCall /\ pc = "done"
            => \A i \in 1..Len(result.data) : result.data[i].deletedAt = NullTime)
    /\ [][(IsListCall /\ pc = "count" /\ pc' = "data")
            => \A i \in 1..Len(store) :
                  Eval(call'.countQuery.where, store[i])
                      => store[i].deletedAt = NullTime]_vars

====
